---- MODULE Spec2Model ----
(***************************************************************************)
(* A model of the chess rules engine of src/game.c: the position (struct   *)
(* game), the piece geometry (pawn_has_way ...), attack and check, move     *)
(* legality (is_legal_move), the Zobrist fingerprint (hash), the material  *)
(* test (enough_material) and move application (move).                     *)
(*                                                                         *)
(* The functions of game.c are operators over a game record g; the state   *)
(* variables are the fields of the one struct game the caller owns, and    *)
(* the single action Call is one call of move() on it.                     *)
(***************************************************************************)
EXTENDS Integers, Sequences, FiniteSets, TLC

(***************************************************************************)
(* enum piece (game.h): one bit per piece type, two colour bits.  game.c   *)
(* tests types with `piece & PAWN`, colours with `piece & color`, and      *)
(* reuses KING and QUEEN as the castling-side flags, so the types are      *)
(* one-hot and disjoint from the colour bits.                              *)
(***************************************************************************)
EMPTY == 0
PAWN == 1
KNIGHT == 2
BISHOP == 4
ROOK == 8
QUEEN == 16
KING == 32
WHITE == 64
BLACK == 128

PieceTypes == {PAWN, KNIGHT, BISHOP, ROOK, QUEEN, KING}
Colors == {WHITE, BLACK}

\* piece & COLOR
ColorOf(piece) == (piece \div WHITE) * WHITE
\* piece & PIECE_TYPE
TypeOf(piece) == piece % WHITE
\* (color == WHITE) ? BLACK : WHITE
Opposite(color) == IF color = WHITE THEN BLACK ELSE WHITE

\* enum move_result, in the order of move_result_text
DEFAULT == "default"
CHECK == "check"
CHECKMATE == "checkmate"
DRAW == "draw"
ILLEGAL == "illegal"

Files == 0..7
Ranks == 0..7
\* struct square {file, rank}
Squares == {<<file, rank>> : file \in Files, rank \in Ranks}

abs(n) == IF n < 0 THEN -n ELSE n

\* position_history[] holds one fingerprint per halfmove_clock value 0..100
HISTORY_SIZE == 101

piece_at(g, square) == g.board[square[1]][square[2]]

EmptyBoard == [file \in Files |-> [rank \in Ranks |-> EMPTY]]

\* A fingerprint is the XOR of entries of the random tables; it is modelled
\* as the set of table entries XORed in, XOR being symmetric difference.
\* A zeroed history slot is the empty set.
Xor(a, b) == (a \ b) \cup (b \ a)
NoHash == {}

\* position_history is kept sparse: a function from the indices written so
\* far to the fingerprints written; every other slot of the array still
\* holds the zero it was created with.
EmptyHistory == <<>>
history_at(history, i) == IF i \in DOMAIN history THEN history[i] ELSE NoHash
history_put(history, i, h) ==
    [j \in (DOMAIN history) \cup {i} |-> IF j = i THEN h ELSE history[j]]

\* const struct game setup
setup ==
    [board |->
        [file \in Files |->
            [rank \in Ranks |->
                CASE rank = 1 -> WHITE + PAWN
                  [] rank = 6 -> BLACK + PAWN
                  [] rank = 0 -> WHITE +
                        (CASE file \in {0, 7} -> ROOK
                           [] file \in {1, 6} -> KNIGHT
                           [] file \in {2, 5} -> BISHOP
                           [] file = 3 -> QUEEN
                           [] file = 4 -> KING)
                  [] rank = 7 -> BLACK +
                        (CASE file \in {0, 7} -> ROOK
                           [] file \in {1, 6} -> KNIGHT
                           [] file \in {2, 5} -> BISHOP
                           [] file = 3 -> QUEEN
                           [] file = 4 -> KING)
                  [] OTHER -> EMPTY]],
     side_to_move |-> WHITE,
     white_castling_avail |-> {KING, QUEEN},
     black_castling_avail |-> {KING, QUEEN},
     en_passant_file |-> -1,
     halfmove_clock |-> 0,
     position_history |-> EmptyHistory]

(***************************************************************************)
(* hash: the Zobrist fingerprint.  The entries of the four random tables   *)
(* are numbered in the order hash() draws them with rand().                *)
(***************************************************************************)
piece_hash(file, rank, k) == file * 96 + rank * 12 + k
en_passant_hash(file) == 768 + file
castling_avail_hash(i) == 776 + i
white_to_move_hash == 780

PieceIndex(piece) ==
    (CASE TypeOf(piece) = PAWN -> 0
       [] TypeOf(piece) = KNIGHT -> 1
       [] TypeOf(piece) = BISHOP -> 2
       [] TypeOf(piece) = ROOK -> 3
       [] TypeOf(piece) = QUEEN -> 4
       [] TypeOf(piece) = KING -> 5)
    + (IF ColorOf(piece) = BLACK THEN 6 ELSE 0)

en_passant_counts(g) ==
    /\ g.en_passant_file >= 0
    /\ LET moving_pawn == g.side_to_move + PAWN
           rank == IF g.side_to_move = WHITE THEN 4 ELSE 3
           left == g.en_passant_file - 1
           right == g.en_passant_file + 1
       IN  \/ (left >= 1 /\ g.board[left][rank] = moving_pawn)
           \/ (right <= 6 /\ g.board[right][rank] = moving_pawn)

hash(g) ==
    LET pieces == {piece_hash(sq[1], sq[2], PieceIndex(piece_at(g, sq))) :
                      sq \in {s \in Squares : piece_at(g, s) # EMPTY}}
        ep == IF en_passant_counts(g)
              THEN {en_passant_hash(g.en_passant_file)} ELSE {}
        wq == IF QUEEN \in g.white_castling_avail THEN {castling_avail_hash(0)} ELSE {}
        wk == IF KING \in g.white_castling_avail THEN {castling_avail_hash(1)} ELSE {}
        bq == IF QUEEN \in g.black_castling_avail THEN {castling_avail_hash(2)} ELSE {}
        bk == IF KING \in g.black_castling_avail THEN {castling_avail_hash(3)} ELSE {}
        wtm == IF g.side_to_move = WHITE THEN {white_to_move_hash} ELSE {}
    IN  Xor(Xor(Xor(Xor(Xor(Xor(pieces, ep), wq), wk), bq), bk), wtm)

(***************************************************************************)
(* Piece geometry.                                                         *)
(***************************************************************************)
pawn_has_way(g, from, to) ==
    LET direction == IF ColorOf(piece_at(g, from)) = WHITE THEN 1 ELSE -1
        advance == to[2] - from[2]
        pawn_start_rank == IF g.side_to_move = WHITE THEN 1 ELSE 6
        en_passant_rank == IF g.side_to_move = WHITE THEN 5 ELSE 2
    IN  IF from[1] = to[1]
        THEN /\ piece_at(g, to) = EMPTY
             /\ \/ advance = direction
                \/ /\ advance = 2 * direction
                   /\ from[2] = pawn_start_rank
                   /\ g.board[from[1]][pawn_start_rank + direction] = EMPTY
        ELSE /\ abs(from[1] - to[1]) = 1
             /\ advance = direction
             /\ \/ piece_at(g, to) # EMPTY
                \/ (to[1] = g.en_passant_file /\ to[2] = en_passant_rank)

knight_has_way(from, to) ==
    LET file_move == abs(from[1] - to[1])
        rank_move == abs(from[2] - to[2])
    IN  (file_move = 1 /\ rank_move = 2) \/ (file_move = 2 /\ rank_move = 1)

bishop_has_way(g, from, to) ==
    LET file_move == abs(from[1] - to[1])
        rank_move == abs(from[2] - to[2])
        file_direction == IF to[1] > from[1] THEN 1 ELSE -1
        rank_direction == IF to[2] > from[2] THEN 1 ELSE -1
    IN  /\ file_move = rank_move
        /\ \A i \in 1..(file_move - 1) :
              g.board[from[1] + i * file_direction][from[2] + i * rank_direction] = EMPTY

\* The loops of rook_has_way walk from `from` towards `to`; the model covers
\* from # to, the only way the engine calls it.
rook_has_way(g, from, to) ==
    /\ (from[1] = to[1] \/ from[2] = to[2])
    /\ from[1] = to[1] =>
          \A rank \in Ranks :
              ((from[2] < rank /\ rank < to[2]) \/ (to[2] < rank /\ rank < from[2]))
                  => g.board[from[1]][rank] = EMPTY
    /\ from[2] = to[2] =>
          \A file \in Files :
              ((from[1] < file /\ file < to[1]) \/ (to[1] < file /\ file < from[1]))
                  => g.board[file][from[2]] = EMPTY

queen_has_way(g, from, to) == bishop_has_way(g, from, to) \/ rook_has_way(g, from, to)

RECURSIVE piece_has_way(_, _, _)

is_attacked_by(g, square, color) ==
    \E from \in Squares :
        /\ ColorOf(piece_at(g, from)) = color
        /\ piece_has_way(g, from, square)

is_attacked(g, square) ==
    is_attacked_by(g, square, Opposite(ColorOf(piece_at(g, square))))

king_has_way(g, from, to) ==
    LET file_move == abs(from[1] - to[1])
        rank_move == abs(from[2] - to[2])
        castling_side == IF to[1] > from[1] THEN KING ELSE QUEEN
        color == ColorOf(piece_at(g, from))
        direction == IF castling_side = QUEEN THEN -1 ELSE 1
        rook == <<IF castling_side = QUEEN THEN 0 ELSE 7, from[2]>>
        rook_to == <<IF castling_side = QUEEN THEN 3 ELSE 5, from[2]>>
        opp_color == Opposite(color)
    IN  IF file_move = 2 /\ rank_move = 0
        THEN /\ IF color = WHITE
                THEN castling_side \in g.white_castling_avail
                ELSE castling_side \in g.black_castling_avail
             /\ \A file \in Files :
                   ((from[1] < file /\ file < rook[1]) \/ (rook[1] < file /\ file < from[1]))
                       => g.board[file][from[2]] = EMPTY
             /\ ~(is_attacked(g, from) \/ is_attacked_by(g, rook_to, opp_color))
        ELSE file_move <= 1 /\ rank_move <= 1

piece_has_way(g, from, to) ==
    CASE TypeOf(piece_at(g, from)) = PAWN -> pawn_has_way(g, from, to)
      [] TypeOf(piece_at(g, from)) = KNIGHT -> knight_has_way(from, to)
      [] TypeOf(piece_at(g, from)) = BISHOP -> bishop_has_way(g, from, to)
      [] TypeOf(piece_at(g, from)) = ROOK -> rook_has_way(g, from, to)
      [] TypeOf(piece_at(g, from)) = QUEEN -> queen_has_way(g, from, to)
      [] TypeOf(piece_at(g, from)) = KING -> king_has_way(g, from, to)
      [] OTHER -> FALSE

\* The first square, in scan order (file, then rank), holding the king.
KingSquares(g, color) == {sq \in Squares : piece_at(g, sq) = KING + color}

is_checked(g, color) ==
    LET kings == KingSquares(g, color)
        king == CHOOSE k \in kings :
                    \A o \in kings : k[1] < o[1] \/ (k[1] = o[1] /\ k[2] <= o[2])
    IN  kings # {} /\ is_attacked(g, king)

(***************************************************************************)
(* Move legality.                                                          *)
(***************************************************************************)
\* A slip in "Isn't own king checked?": the side to move of the scratch
\* position (the opponent) is tested instead of the mover.
leaves_in_check_other_side(g, from, to) ==
    LET new_position ==
            [g EXCEPT !.board[to[1]][to[2]] = piece_at(g, from),
                      !.board[from[1]][from[2]] = EMPTY,
                      !.side_to_move = Opposite(g.side_to_move),
                      !.en_passant_file = -1]
    IN  is_checked(new_position, new_position.side_to_move)

\* "Isn't own king checked?": the move is made on a scratch copy
leaves_in_check(g, from, to) ==
    LET new_position ==
            [g EXCEPT !.board[to[1]][to[2]] = piece_at(g, from),
                      !.board[from[1]][from[2]] = EMPTY,
                      !.side_to_move = Opposite(g.side_to_move),
                      !.en_passant_file = -1]
    IN  is_checked(new_position, g.side_to_move)

\* The verdict of is_legal_move: "legal", or the message of the check that
\* fails first, in the order of the code.
legality(g, from, to, promotion) ==
    IF \/ from[2] < 0 \/ from[2] > 7 \/ from[1] < 0 \/ from[1] > 7
       \/ to[2] < 0 \/ to[2] > 7 \/ to[1] < 0 \/ to[1] > 7
    THEN "Can't move out of the board"
    ELSE IF piece_at(g, from) = EMPTY THEN "Must move a piece"
    ELSE IF ColorOf(piece_at(g, from)) # g.side_to_move THEN "Must move own piece"
    ELSE IF ColorOf(piece_at(g, to)) = g.side_to_move THEN "Can't capture own piece"
    ELSE IF ~piece_has_way(g, from, to) THEN "No way"
    ELSE
    LET last_rank == IF g.side_to_move = WHITE THEN 7 ELSE 0
    IN  IF /\ TypeOf(piece_at(g, from)) = PAWN /\ to[2] = last_rank
           /\ TypeOf(promotion) \notin {KNIGHT, BISHOP, ROOK, QUEEN}
        THEN "Promotion not specified"
        ELSE IF /\ ~(TypeOf(piece_at(g, from)) = PAWN /\ to[2] = last_rank)
                /\ promotion # EMPTY
        THEN "Can't promote"
        ELSE IF leaves_in_check(g, from, to)
        THEN "Can't move into check"
        ELSE "legal"

is_legal_move(g, from, to, promotion) == legality(g, from, to, promotion) = "legal"

\* A slip in the probe: no promotion is ever proposed, so a pawn's step to
\* the last rank is never found.
can_make_any_move_no_promotion(g) ==
    \E from \in Squares :
        /\ ColorOf(piece_at(g, from)) = g.side_to_move
        /\ \E to \in Squares : is_legal_move(g, from, to, EMPTY)

can_make_any_move(g) ==
    \E from \in Squares :
        /\ ColorOf(piece_at(g, from)) = g.side_to_move
        /\ \E to \in Squares :
              is_legal_move(g, from, to,
                  IF TypeOf(piece_at(g, from)) = PAWN /\ (to[2] = 0 \/ to[2] = 7)
                  THEN QUEEN ELSE EMPTY)

\* A copy-and-paste slip: the bishop of the last test is White's again.
enough_material_white_twice(g) ==
    LET count(piece) == Cardinality({sq \in Squares : piece_at(g, sq) = piece})
        w_knights == count(WHITE + KNIGHT)
        b_knights == count(BLACK + KNIGHT)
        w_bishops == count(WHITE + BISHOP)
        b_bishops == count(BLACK + BISHOP)
    IN  \/ \E sq \in Squares : TypeOf(piece_at(g, sq)) \in {PAWN, ROOK, QUEEN}
        \/ w_bishops >= 2 \/ b_bishops >= 2
        \/ (w_bishops = 1 /\ w_knights >= 1)
        \/ (w_bishops = 1 /\ b_knights >= 1)

enough_material(g) ==
    LET count(piece) == Cardinality({sq \in Squares : piece_at(g, sq) = piece})
        w_knights == count(WHITE + KNIGHT)
        b_knights == count(BLACK + KNIGHT)
        w_bishops == count(WHITE + BISHOP)
        b_bishops == count(BLACK + BISHOP)
    IN  \/ \E sq \in Squares : TypeOf(piece_at(g, sq)) \in {PAWN, ROOK, QUEEN}
        \/ w_bishops >= 2 \/ b_bishops >= 2
        \/ (w_bishops = 1 /\ w_knights >= 1)
        \/ (b_bishops = 1 /\ b_knights >= 1)

(***************************************************************************)
(* move: one call.  The result is the position the call leaves, what it    *)
(* returns, the verdict of is_legal_move, and whether the call wrote       *)
(* position_history out of bounds.                                         *)
(***************************************************************************)
\* A slip in "disabling castling": |= for &= ~ on the rook squares.
castling_after_sets(avail, from, home_rank) ==
    IF from[2] # home_rank THEN avail
    ELSE CASE from[1] = 0 -> avail \cup {QUEEN}
           [] from[1] = 4 -> {}
           [] from[1] = 7 -> avail \cup {KING}
           [] OTHER -> avail

\* A slip in "disabling castling": the rank of the origin is not tested.
castling_after_any_rank(avail, from, home_rank) ==
    CASE from[1] = 0 -> avail \ {QUEEN}
      [] from[1] = 4 -> {}
      [] from[1] = 7 -> avail \ {KING}
      [] OTHER -> avail

\* "disabling castling": the rights a move from `from` leaves
castling_after(avail, from, home_rank) ==
    IF from[2] # home_rank THEN avail
    ELSE CASE from[1] = 0 -> avail \ {QUEEN}
           [] from[1] = 4 -> {}
           [] from[1] = 7 -> avail \ {KING}
           [] OTHER -> avail

\* "moving the rook for castling"
castle_rook(board, from, to) ==
    IF TypeOf(board[from[1]][from[2]]) = KING /\ to[1] - from[1] = 2
    THEN [board EXCEPT ![5][from[2]] = board[7][from[2]], ![7][from[2]] = EMPTY]
    ELSE IF TypeOf(board[from[1]][from[2]]) = KING /\ to[1] - from[1] = -2
    THEN [board EXCEPT ![3][from[2]] = board[0][from[2]], ![0][from[2]] = EMPTY]
    ELSE board

\* "en passant availability"
\* A slip in "en passant availability": every pawn move sets the file.
en_passant_after_any_pawn(board, from, to) ==
    IF TypeOf(board[from[1]][from[2]]) = PAWN THEN from[1] ELSE -1

en_passant_after(board, from, to) ==
    IF TypeOf(board[from[1]][from[2]]) = PAWN /\ abs(from[2] - to[2]) = 2
    THEN from[1] ELSE -1

\* A slip in "track the fifty-move rule": a capture does not reset.
clock_after_pawn_only(clock, board, from, to) ==
    IF TypeOf(board[from[1]][from[2]]) = PAWN THEN 0 ELSE clock + 1

\* "track the fifty-move rule"
clock_after(clock, board, from, to) ==
    IF TypeOf(board[from[1]][from[2]]) = PAWN \/ board[to[1]][to[2]] # EMPTY
    THEN 0 ELSE clock + 1

\* "move the piece"
\* A slip in "move the piece": the promotion is not applied.
relocate_pawn_stays(board, from, to, promotion, side) ==
    [board EXCEPT ![to[1]][to[2]] = board[from[1]][from[2]],
                  ![from[1]][from[2]] = EMPTY]

relocate(board, from, to, promotion, side) ==
    [board EXCEPT ![to[1]][to[2]] =
                      IF promotion # EMPTY THEN TypeOf(promotion) + side
                      ELSE board[from[1]][from[2]],
                  ![from[1]][from[2]] = EMPTY]

\* "remove a pawn taken en passant": the statement in the branch is the
\* comparison board[to.file][from.rank] == EMPTY, which stores nothing (and
\* the branch tests piece_at(from) after the origin was emptied).
remove_en_passant(board, from, to) == board

\* A slip in the loop: it starts at 1 and misses the baseline.
count_repetitions_from_one(history, clock, current) ==
    Cardinality({i \in 1..clock : i < HISTORY_SIZE /\ history_at(history, i) = current})
        + (IF clock >= HISTORY_SIZE THEN 1 ELSE 0)

\* the loop counting the history entries equal to the one just written
count_repetitions(history, clock, current) ==
    Cardinality({i \in 0..clock : i < HISTORY_SIZE /\ history_at(history, i) = current})
        + (IF clock >= HISTORY_SIZE THEN 1 ELSE 0)

\* A slip in the order: the fifty-move test comes before the mobility test.
classify_clock_first(g, repetitions) ==
    IF repetitions = 3 THEN DRAW
    ELSE IF ~enough_material(g) THEN DRAW
    ELSE IF g.halfmove_clock = 100 THEN DRAW
    ELSE IF ~can_make_any_move(g)
         THEN (IF is_checked(g, g.side_to_move) THEN CHECKMATE ELSE DRAW)
    ELSE IF is_checked(g, g.side_to_move) THEN CHECK
    ELSE DEFAULT

\* the classification after the repetition count
classify(g, repetitions) ==
    IF repetitions = 3 THEN DRAW
    ELSE IF ~enough_material(g) THEN DRAW
    ELSE IF ~can_make_any_move(g)
         THEN (IF is_checked(g, g.side_to_move) THEN CHECKMATE ELSE DRAW)
    ELSE IF g.halfmove_clock = 100 THEN DRAW
    ELSE IF is_checked(g, g.side_to_move) THEN CHECK
    ELSE DEFAULT

\* move, after is_legal_move has accepted the call
move_accepted(g, from, to, promotion) ==
    LET baseline == IF g.halfmove_clock = 0
                    THEN history_put(g.position_history, 0, hash(g))
                    ELSE g.position_history
        white_avail == castling_after(g.white_castling_avail, from, 0)
        black_avail == castling_after(g.black_castling_avail, from, 7)
        castled == castle_rook(g.board, from, to)
        en_passant == en_passant_after(castled, from, to)
        clock == clock_after(g.halfmove_clock, castled, from, to)
        moved == relocate(castled, from, to, promotion, g.side_to_move)
        after == [board |-> remove_en_passant(moved, from, to),
                  side_to_move |-> Opposite(g.side_to_move),
                  white_castling_avail |-> white_avail,
                  black_castling_avail |-> black_avail,
                  en_passant_file |-> en_passant,
                  halfmove_clock |-> clock,
                  position_history |-> baseline]
        current == hash(after)
        in_bounds == clock < HISTORY_SIZE
        history == IF in_bounds THEN history_put(baseline, clock, current)
                   ELSE baseline
        new == [after EXCEPT !.position_history = history]
    IN  [game |-> new,
         result |-> classify(new, count_repetitions(history, clock, current)),
         why |-> "legal",
         out_of_bounds |-> ~in_bounds,
         fingerprint |-> current]

\* A slip in the order: the baseline is recorded before the legality test.
move_baseline_first(g, from, to, promotion) ==
    LET verdict == legality(g, from, to, promotion)
        recorded == IF g.halfmove_clock = 0
                    THEN [g EXCEPT !.position_history =
                              history_put(g.position_history, 0, hash(g))]
                    ELSE g
    IN  IF verdict # "legal"
        THEN [game |-> recorded, result |-> ILLEGAL, why |-> verdict,
              out_of_bounds |-> FALSE, fingerprint |-> NoHash]
        ELSE move_accepted(g, from, to, promotion)

\* is_legal_move(g, from, to, promotion) is verdict = "legal"
move(g, from, to, promotion) ==
    LET verdict == legality(g, from, to, promotion)
    IN  IF verdict # "legal"
        THEN [game |-> g, result |-> ILLEGAL, why |-> verdict,
              out_of_bounds |-> FALSE, fingerprint |-> NoHash]
        ELSE move_accepted(g, from, to, promotion)

(***************************************************************************)
(* The state: the fields of the caller's struct game, and what the last    *)
(* call of move() was given and returned.                                  *)
(***************************************************************************)
VARIABLES
    board, side_to_move, white_castling_avail, black_castling_avail,
    en_passant_file, halfmove_clock, position_history,
    result,      \* what the last call returned ("none" before the first)
    last,        \* the last call, when it was accepted: from, to, promotion
    why,         \* the verdict of is_legal_move in the last call
    before,      \* the position the last call was made on
    undefined,   \* a call has written position_history out of bounds, or
                 \* fen_to_game has read past the end of its text
    calls,       \* the number of calls made
    fen_text,    \* the text given to fen_to_game ("" for the setup)
    loaded,      \* "none" before fen_to_game is called, then "NULL" or "game"
    run,         \* history variable: the fingerprints of the positions known
                 \* to have occurred since halfmove_clock last became 0, by
                 \* the value of halfmove_clock they occurred at
    over         \* history variable: a call has returned CHECKMATE, or DRAW
                 \* with no legal move for the side to move

position == <<board, side_to_move, white_castling_avail, black_castling_avail,
              en_passant_file, halfmove_clock, position_history>>
vars == <<board, side_to_move, white_castling_avail, black_castling_avail,
          en_passant_file, halfmove_clock, position_history,
          result, last, why, before, undefined, calls, fen_text, loaded, run,
          over>>

Game ==
    [board |-> board,
     side_to_move |-> side_to_move,
     white_castling_avail |-> white_castling_avail,
     black_castling_avail |-> black_castling_avail,
     en_passant_file |-> en_passant_file,
     halfmove_clock |-> halfmove_clock,
     position_history |-> position_history]

NoSquare == <<-1, -1>>
NoCall == [from |-> NoSquare, to |-> NoSquare, promotion |-> EMPTY]

(***************************************************************************)
(* fen_to_game.  The text is a string; fen[i] of the code is char_at(fen,  *)
(* i), and the terminating NUL of the C string is the character NUL at     *)
(* index Len(fen).  The result is the struct the code has filled, whether  *)
(* it returned it or NULL, and whether it read past the terminating NUL.   *)
(***************************************************************************)
NUL == ""
char_at(fen, i) == IF i < Len(fen) THEN SubSeq(fen, i + 1, i + 1) ELSE NUL

\* fen[i] - '0' for a character '1'..'8'
DigitRun == [c \in {"1", "2", "3", "4", "5", "6", "7", "8"} |->
                CASE c = "1" -> 1 [] c = "2" -> 2 [] c = "3" -> 3 [] c = "4" -> 4
                  [] c = "5" -> 5 [] c = "6" -> 6 [] c = "7" -> 7 [] c = "8" -> 8]

\* the switch over the piece letters
PieceLetter ==
    [c \in {"P", "N", "B", "R", "Q", "K", "p", "n", "b", "r", "q", "k"} |->
        CASE c = "P" -> WHITE + PAWN   [] c = "N" -> WHITE + KNIGHT
          [] c = "B" -> WHITE + BISHOP [] c = "R" -> WHITE + ROOK
          [] c = "Q" -> WHITE + QUEEN  [] c = "K" -> WHITE + KING
          [] c = "p" -> BLACK + PAWN   [] c = "n" -> BLACK + KNIGHT
          [] c = "b" -> BLACK + BISHOP [] c = "r" -> BLACK + ROOK
          [] c = "q" -> BLACK + QUEEN  [] c = "k" -> BLACK + KING]

\* fen[i] - 'a' for a character 'a'..'h'
FileLetter ==
    [c \in {"a", "b", "c", "d", "e", "f", "g", "h"} |->
        CASE c = "a" -> 0 [] c = "b" -> 1 [] c = "c" -> 2 [] c = "d" -> 3
          [] c = "e" -> 4 [] c = "f" -> 5 [] c = "g" -> 6 [] c = "h" -> 7]

\* memset(result, 0, sizeof(struct game))
ZeroGame ==
    [board |-> EmptyBoard,
     side_to_move |-> EMPTY,
     white_castling_avail |-> {},
     black_castling_avail |-> {},
     en_passant_file |-> 0,
     halfmove_clock |-> 0,
     position_history |-> EmptyHistory]

\* the first loop, from the character at i: the piece placement
RECURSIVE fen_placement(_, _, _, _, _)
fen_placement(fen, i, file, rank, brd) ==
    LET c == char_at(fen, i)
    IN  IF c = " " THEN [ok |-> TRUE, i |-> i, board |-> brd]
        ELSE IF c = "/" THEN fen_placement(fen, i + 1, 0, rank - 1, brd)
        ELSE IF file > 7 \/ rank < 0 THEN [ok |-> FALSE, i |-> i, board |-> brd]
        ELSE IF c \in DOMAIN DigitRun
             THEN fen_placement(fen, i + 1, file + DigitRun[c], rank, brd)
        ELSE IF c \in DOMAIN PieceLetter
             THEN fen_placement(fen, i + 1, file + 1, rank,
                                [brd EXCEPT ![file][rank] = PieceLetter[c]])
        ELSE [ok |-> FALSE, i |-> i, board |-> brd]

\* the second loop, from the character at i: the castling field
RECURSIVE fen_castling(_, _, _, _)
fen_castling(fen, i, white, black) ==
    LET c == char_at(fen, i)
    IN  IF c = " " THEN [ok |-> TRUE, i |-> i, white |-> white, black |-> black]
        ELSE IF c = "-" THEN fen_castling(fen, i + 1, white, black)
        ELSE IF c = "K" THEN fen_castling(fen, i + 1, white \cup {KING}, black)
        ELSE IF c = "Q" THEN fen_castling(fen, i + 1, white \cup {QUEEN}, black)
        ELSE IF c = "k" THEN fen_castling(fen, i + 1, white, black \cup {KING})
        ELSE IF c = "q" THEN fen_castling(fen, i + 1, white, black \cup {QUEEN})
        ELSE [ok |-> FALSE, i |-> i, white |-> white, black |-> black]

\* sscanf(text, "%d", ...): white space is skipped, then an optional sign
\* and decimal digits are read; the count of conversions is 1 if there was
\* a digit, and no conversion is made otherwise.
DecimalDigit ==
    [c \in {"0", "1", "2", "3", "4", "5", "6", "7", "8", "9"} |->
        IF c = "0" THEN 0 ELSE IF c = "9" THEN 9 ELSE DigitRun[c]]

RECURSIVE scan_digits(_, _, _)
scan_digits(fen, i, value) ==
    LET c == char_at(fen, i)
    IN  IF c \in DOMAIN DecimalDigit
        THEN scan_digits(fen, i + 1, 10 * value + DecimalDigit[c])
        ELSE value

RECURSIVE skip_space(_, _)
skip_space(fen, i) == IF char_at(fen, i) = " " THEN skip_space(fen, i + 1) ELSE i

sscanf_d(fen, i) ==
    LET start == skip_space(fen, i)
        sign == char_at(fen, start)
        first == IF sign \in {"-", "+"} THEN start + 1 ELSE start
    IN  IF char_at(fen, first) \in DOMAIN DecimalDigit
        THEN [count |-> 1,
              value |-> IF sign = "-" THEN 0 - scan_digits(fen, first, 0)
                        ELSE scan_digits(fen, first, 0)]
        ELSE [count |-> 0, value |-> 0]

\* fen_to_game: null says the code went to ERROR, out_of_bounds that it
\* handed sscanf an address past the terminating NUL of the text
fen_to_game(fen) ==
    LET error == [null |-> TRUE, out_of_bounds |-> FALSE, game |-> ZeroGame]
        placed == fen_placement(fen, 0, 0, 7, EmptyBoard)
        side == char_at(fen, placed.i + 1)
        rights == fen_castling(fen, placed.i + 3, {}, {})
        ep == rights.i + 1
        letter == char_at(fen, ep)
        clock_at == IF letter \in DOMAIN FileLetter THEN ep + 3 ELSE ep + 2
        clock == sscanf_d(fen, clock_at)
        filled ==
            [board |-> placed.board,
             side_to_move |-> IF side = "w" THEN WHITE ELSE BLACK,
             white_castling_avail |-> rights.white,
             black_castling_avail |-> rights.black,
             en_passant_file |-> IF letter \in DOMAIN FileLetter
                                 THEN FileLetter[letter] ELSE 0,
             halfmove_clock |-> 0,
             position_history |-> EmptyHistory]
    IN  IF ~placed.ok THEN error
        ELSE IF side \notin {"w", "b"} THEN error
        ELSE IF char_at(fen, placed.i + 2) # " " THEN error
        ELSE IF ~rights.ok THEN error
        ELSE IF letter \in DOMAIN FileLetter
                    /\ char_at(fen, ep + 1) \notin DOMAIN DigitRun THEN error
        ELSE IF letter \notin DOMAIN FileLetter /\ letter # "-" THEN error
        ELSE IF clock_at > Len(fen)
             THEN [null |-> TRUE, out_of_bounds |-> TRUE, game |-> filled]
        ELSE IF clock.count # 1 THEN error
        ELSE IF clock.value < 0 \/ clock.value > 100 THEN error
        ELSE [null |-> FALSE, out_of_bounds |-> FALSE,
              game |-> [filled EXCEPT !.halfmove_clock = clock.value]]

(***************************************************************************)
(* Positions a caller can hold: the built-in setup, and what fen_to_game   *)
(* returns for the texts below.                                            *)
(***************************************************************************)
\* Black must play Kh8, and White's reply brings the clock to 100
QueenEnding98Fen == "6k1/4Q3/6K1/8/8/8/8/8 b - - 98 1"
QueenEnding98 == fen_to_game(QueenEnding98Fen).game

\* the same a move later: Kh8 brings the clock to 100
QueenEnding99Fen == "6k1/4Q3/6K1/8/8/8/8/8 b - - 99 1"

\* mate and stalemate in one
QueenEndingFen == "7k/4Q3/6K1/8/8/8/8/8 w - - 10 1"

\* d7d5 can be answered by e5xd6
EnPassantEndingFen == "4k3/3p4/8/4P3/8/8/8/4K3 b - - 0 1"

\* b7b5 passes the pawn on a5, g7g5 the pawn on h5, d7d5 the pawn on e5
EdgePawnsEndingFen == "4k3/1p1p2p1/8/P3P2P/8/8/8/4K3 b - - 0 1"

\* White may castle kingside only, Black either way; the pawn on e2 stands
\* diagonally in front of f1
CastlingEndingFen == "r3k2r/8/8/8/8/8/4p3/R3K2R w Kkq - 0 1"

\* Kxe5 leaves the kings and the minor pieces of the first and last ranks
MinorRanks ==
    {<<"4k3", "8">>,
     <<"4k3", "1N6">>, <<"4k3", "2B5">>, <<"4k3", "2B2B2">>,
     <<"4k3", "1NB5">>, <<"4k3", "1N4N1">>,
     <<"1n2k3", "8">>, <<"2b1k3", "8">>, <<"2b1kb2", "8">>,
     <<"1nb1k3", "8">>, <<"1n2k1n1", "8">>}

MaterialEndingFens ==
    {r[1] \o "/8/8/4p3/3K4/8/8/" \o r[2] \o " w - - 0 1" : r \in MinorRanks}

\* Ne5-f7 mates with two knights
KnightsEndingFen == "7k/8/5N1K/4N3/8/8/8/8 w - - 0 1"

EndingFens ==
    {QueenEnding98Fen, QueenEnding99Fen, QueenEndingFen, EnPassantEndingFen,
     EdgePawnsEndingFen, CastlingEndingFen, KnightsEndingFen}
        \cup MaterialEndingFens

Endings == {fen_to_game(text).game : text \in EndingFens}

\* the bound on the number of calls explored from an ending
MaxCalls == 2
\* the bound on the number of calls explored from the setup
MaxBookCalls == 8

(***************************************************************************)
(* What a caller passes.  is_legal_move rejects an origin that is off the  *)
(* board, empty or the opponent's before it looks at the contents of the   *)
(* destination or at the promotion (lines 416-433), so for such an origin  *)
(* one destination and one promotion stand for all; and it rejects a       *)
(* destination the piece has no way to before it looks at the promotion    *)
(* (lines 435-444), so there one promotion stands for all.                 *)
(***************************************************************************)
OffBoard == {<<-1, 0>>, <<0, 8>>}
InputSquares == Squares \cup OffBoard
\* a promotion may also carry a colour bit, which move() strips
Promotions == {EMPTY, WHITE + QUEEN} \cup PieceTypes

OwnPiece(from) ==
    from \in Squares /\ ColorOf(board[from[1]][from[2]]) = side_to_move

Destinations(from) == IF OwnPiece(from) THEN InputSquares ELSE {from}
HasWay(from, to) ==
    /\ OwnPiece(from)
    /\ to \in Squares
    /\ ColorOf(board[to[1]][to[2]]) # side_to_move
    /\ piece_has_way(Game, from, to)

PromotionsFor(from, to) == IF HasWay(from, to) THEN Promotions ELSE {EMPTY}

\* The moves of the book: the scholar's mate, the knights stepping out and
\* back, the pinned f-pawn and the king taking the defended queen, and the
\* moves of the queen ending.
Sq(name) ==
    CASE name = "e2" -> <<4, 1>> [] name = "e4" -> <<4, 3>>
      [] name = "e7" -> <<4, 6>> [] name = "e5" -> <<4, 4>>
      [] name = "d1" -> <<3, 0>> [] name = "h5" -> <<7, 4>>
      [] name = "b8" -> <<1, 7>> [] name = "c6" -> <<2, 5>>
      [] name = "f1" -> <<5, 0>> [] name = "c4" -> <<2, 3>>
      [] name = "g8" -> <<6, 7>> [] name = "f6" -> <<5, 5>>
      [] name = "f7" -> <<5, 6>> [] name = "g1" -> <<6, 0>>
      [] name = "f3" -> <<5, 2>> [] name = "e8" -> <<4, 7>>
      [] name = "h8" -> <<7, 7>>

Book ==
    {<<Sq("e2"), Sq("e4"), EMPTY>>, <<Sq("e7"), Sq("e5"), EMPTY>>,
     <<Sq("d1"), Sq("h5"), EMPTY>>, <<Sq("b8"), Sq("c6"), EMPTY>>,
     <<Sq("f1"), Sq("c4"), EMPTY>>, <<Sq("g8"), Sq("f6"), EMPTY>>,
     <<Sq("h5"), Sq("f7"), EMPTY>>, <<Sq("g1"), Sq("f3"), EMPTY>>,
     <<Sq("f3"), Sq("g1"), EMPTY>>, <<Sq("f6"), Sq("g8"), EMPTY>>,
     <<Sq("f7"), Sq("f6"), EMPTY>>, <<Sq("e8"), Sq("f7"), EMPTY>>,
     <<Sq("g8"), Sq("h8"), EMPTY>>, <<Sq("e7"), Sq("e8"), EMPTY>>,
     <<Sq("e7"), Sq("f7"), EMPTY>>}

Start(g) ==
    /\ board = g.board
    /\ side_to_move = g.side_to_move
    /\ white_castling_avail = g.white_castling_avail
    /\ black_castling_avail = g.black_castling_avail
    /\ en_passant_file = g.en_passant_file
    /\ halfmove_clock = g.halfmove_clock
    /\ position_history = g.position_history
    /\ result = "none"
    /\ last = NoCall
    /\ why = "none"
    /\ before = g
    /\ undefined = FALSE
    /\ calls = 0
    /\ loaded = "game"
    /\ run = (g.halfmove_clock :> hash(g))
    /\ over = FALSE

\* one call of move() on the caller's game
Call(from, to, promotion) ==
    /\ ~undefined
    /\ LET r == move(Game, from, to, promotion)
       IN  /\ board' = r.game.board
           /\ side_to_move' = r.game.side_to_move
           /\ white_castling_avail' = r.game.white_castling_avail
           /\ black_castling_avail' = r.game.black_castling_avail
           /\ en_passant_file' = r.game.en_passant_file
           /\ halfmove_clock' = r.game.halfmove_clock
           /\ position_history' = r.game.position_history
           /\ result' = r.result
           /\ last' = IF r.result = ILLEGAL THEN NoCall
                      ELSE [from |-> from, to |-> to, promotion |-> promotion]
           /\ why' = r.why
           /\ undefined' = r.out_of_bounds
           /\ run' = IF r.result = ILLEGAL THEN run
                     ELSE IF r.game.halfmove_clock = 0 THEN (0 :> r.fingerprint)
                     ELSE (r.game.halfmove_clock :> r.fingerprint) @@ run
           /\ over' = \/ over
                       \/ r.result = CHECKMATE
                       \/ (r.result = DRAW /\ ~can_make_any_move(r.game))
    /\ before' = Game
    /\ calls' = calls + 1
    /\ UNCHANGED <<fen_text, loaded>>

\* Games from the endings, every input tried at every call.
Init == \E text \in EndingFens : fen_text = text /\ Start(fen_to_game(text).game)

Next ==
    /\ calls < MaxCalls
    /\ \E from \in InputSquares :
          \E to \in Destinations(from) :
              \E promotion \in PromotionsFor(from, to) :
                  Call(from, to, promotion)

Spec == Init /\ [][Next]_vars

\* Games from the setup and from the queen ending, the inputs drawn from
\* the book.
InitBook ==
    \/ fen_text = "" /\ Start(setup)
    \/ fen_text = QueenEnding98Fen /\ Start(QueenEnding98)

NextBook ==
    /\ calls < MaxBookCalls
    /\ \E m \in Book : Call(m[1], m[2], m[3])

SpecBook == InitBook /\ [][NextBook]_vars

(***************************************************************************)
(* Games from the setup in which the caller plays, call by call, the next  *)
(* move of one of two lines, given as parse_move takes them.  In the       *)
(* first the black king walks to a1, taking the rook there, and White      *)
(* castles queenside; in the second a black bishop takes the rook on h1    *)
(* and White castles kingside.                                             *)
(***************************************************************************)
KingLine ==
    <<"d2d4", "d7d5", "d1d3", "e8d7", "d3h7", "d7c6", "b2b4", "c6b5", "c1h6",
      "b5a4", "b1d2", "a4a3", "h2h3", "a3b2", "h3h4", "b2a1", "e1c1", "d1c1">>
BishopLine ==
    <<"g2g4", "b7b6", "g4g5", "c8b7", "f1h3", "b7h1", "g1f3", "a7a6", "e1g1">>
GameLines == {KingLine, BishopLine}

\* the bound on the number of calls explored along the lines
MaxGameCalls == 18

\* parse_move: the squares and the promotion a move string of four or five
\* characters names (the strings of the lines are in lower case, with
\* files a..h and ranks 1..8)
parse_move_from(move_str) ==
    <<FileLetter[char_at(move_str, 0)], DigitRun[char_at(move_str, 1)] - 1>>
parse_move_to(move_str) ==
    <<FileLetter[char_at(move_str, 2)], DigitRun[char_at(move_str, 3)] - 1>>
parse_move_promotion(move_str) ==
    CASE char_at(move_str, 4) = "n" -> KNIGHT
      [] char_at(move_str, 4) = "b" -> BISHOP
      [] char_at(move_str, 4) = "r" -> ROOK
      [] char_at(move_str, 4) = "q" -> QUEEN
      [] OTHER -> EMPTY

InitGame == fen_text = "" /\ Start(setup)

NextGame ==
    /\ calls < MaxGameCalls
    /\ \E line \in GameLines :
          /\ calls + 1 <= Len(line)
          /\ Call(parse_move_from(line[calls + 1]),
                  parse_move_to(line[calls + 1]),
                  parse_move_promotion(line[calls + 1]))

SpecGame == InitGame /\ [][NextGame]_vars

(***************************************************************************)
(* Texts given to fen_to_game: every combination of the fields below.      *)
(***************************************************************************)
InitialFen == "rnbqkbnr/pppppppp/8/8/8/8/PPPPPPPP/RNBQKBNR w KQkq - 0 1"

FenPlacements ==
    {"rnbqkbnr/pppppppp/8/8/8/8/PPPPPPPP/RNBQKBNR",
     "4k3/8/8/8/8/8/8/4K3",
     "4k3/8/8/8/8/8/8/4K3P",
     "4k3/8/8/8/8/8/8/4K4",
     "4k3/8/8/45/8/8/8/4K3",
     "4k3/8/8/8/8/8/8/4K3/8",
     "4k3/8/8/8/8/8/8/4X3"}
FenSides == {"w", "b", "x"}
FenCastlings == {"-", "KQkq", "Kx"}
FenEnPassants == {"-", "e3", "i3", "e9"}
FenClocks == {" 0 1", " 100 1", " 101 1", " -1 1", " x 1", " ", ""}

FenTexts ==
    {p \o " " \o sd \o " " \o c \o " " \o e \o t :
        p \in FenPlacements, sd \in FenSides, c \in FenCastlings,
        e \in FenEnPassants, t \in FenClocks}

\* what sscanf may find past the end of the text: nothing it can convert,
\* or digits
GarbageClocks == {-1, 0, 100, 101}

\* the caller has a text and no game yet
InitFen ==
    /\ fen_text \in FenTexts
    /\ loaded = "none"
    /\ board = ZeroGame.board
    /\ side_to_move = ZeroGame.side_to_move
    /\ white_castling_avail = ZeroGame.white_castling_avail
    /\ black_castling_avail = ZeroGame.black_castling_avail
    /\ en_passant_file = ZeroGame.en_passant_file
    /\ halfmove_clock = ZeroGame.halfmove_clock
    /\ position_history = ZeroGame.position_history
    /\ result = "none"
    /\ last = NoCall
    /\ why = "none"
    /\ before = ZeroGame
    /\ undefined = FALSE
    /\ calls = 0
    /\ run = <<>>
    /\ over = FALSE

\* one call of fen_to_game; a returned NULL leaves the caller without a game
Load ==
    /\ loaded = "none"
    /\ LET r == fen_to_game(fen_text)
           outcomes ==
               IF r.out_of_bounds
               THEN {[null |-> TRUE, game |-> ZeroGame]} \cup
                    {[null |-> clock < 0 \/ clock > 100,
                      game |-> IF clock < 0 \/ clock > 100 THEN ZeroGame
                               ELSE [r.game EXCEPT !.halfmove_clock = clock]] :
                        clock \in GarbageClocks}
               ELSE {[null |-> r.null, game |-> r.game]}
       IN  /\ undefined' = r.out_of_bounds
           /\ \E o \in outcomes :
                 /\ loaded' = IF o.null THEN "NULL" ELSE "game"
                 /\ board' = o.game.board
                 /\ side_to_move' = o.game.side_to_move
                 /\ white_castling_avail' = o.game.white_castling_avail
                 /\ black_castling_avail' = o.game.black_castling_avail
                 /\ en_passant_file' = o.game.en_passant_file
                 /\ halfmove_clock' = o.game.halfmove_clock
                 /\ position_history' = o.game.position_history
    /\ UNCHANGED <<result, last, why, before, calls, fen_text, run, over>>

NextFen == Load

SpecFen == InitFen /\ [][NextFen]_vars


(***************************************************************************)
(* The rules of chess the properties are stated in: which squares a piece  *)
(* attacks, whatever the side to move and whatever stands on the target.   *)
(***************************************************************************)
Between(from, to) ==
    {sq \in Squares :
        /\ sq # from /\ sq # to
        /\ \/ (sq[1] = from[1] /\ from[1] = to[1])
           \/ (sq[2] = from[2] /\ from[2] = to[2])
           \/ /\ abs(to[1] - from[1]) = abs(to[2] - from[2])
              /\ abs(sq[1] - from[1]) = abs(sq[2] - from[2])
              /\ abs(sq[1] - to[1]) = abs(sq[2] - to[2])
        /\ abs(sq[1] - from[1]) + abs(sq[1] - to[1]) = abs(from[1] - to[1])
        /\ abs(sq[2] - from[2]) + abs(sq[2] - to[2]) = abs(from[2] - to[2])}

Clear(b, from, to) == \A sq \in Between(from, to) : b[sq[1]][sq[2]] = EMPTY

Attacks(b, from, target) ==
    LET piece == b[from[1]][from[2]]
        df == abs(target[1] - from[1])
        dr == abs(target[2] - from[2])
    IN  /\ from # target
        /\ CASE TypeOf(piece) = PAWN ->
                    df = 1 /\ target[2] - from[2] = (IF ColorOf(piece) = WHITE THEN 1 ELSE -1)
             [] TypeOf(piece) = KNIGHT -> (df = 1 /\ dr = 2) \/ (df = 2 /\ dr = 1)
             [] TypeOf(piece) = BISHOP -> df = dr /\ Clear(b, from, target)
             [] TypeOf(piece) = ROOK -> (df = 0 \/ dr = 0) /\ Clear(b, from, target)
             [] TypeOf(piece) = QUEEN ->
                    (df = dr \/ df = 0 \/ dr = 0) /\ Clear(b, from, target)
             [] TypeOf(piece) = KING -> df <= 1 /\ dr <= 1
             [] OTHER -> FALSE

AttackedBy(b, square, color) ==
    \E from \in Squares :
        ColorOf(b[from[1]][from[2]]) = color /\ Attacks(b, from, square)

KingAttacked(b, color) ==
    \E k \in Squares :
        b[k[1]][k[2]] = KING + color /\ AttackedBy(b, k, Opposite(color))

\* the last call was accepted / rejected
Accepted == result \in {DEFAULT, CHECK, CHECKMATE, DRAW}
Rejected == result = ILLEGAL

\* what the last accepted call moved, and what stood on its destination
MovedPiece == before.board[last.from[1]][last.from[2]]
CapturedPiece == before.board[last.to[1]][last.to[2]]

\* how often the fingerprint of the position occurs in the history read
Occurrences ==
    Cardinality({i \in 0..halfmove_clock :
                    history_at(position_history, i) = hash(Game)})

\* the side to move is in check and has no legal move
Mated == KingAttacked(board, side_to_move) /\ ~can_make_any_move(Game)


(***************************************************************************)
(* The scholar's mate, played from the setup with move().                  *)
(***************************************************************************)
ScholarLine ==
    <<<<Sq("e2"), Sq("e4")>>, <<Sq("e7"), Sq("e5")>>, <<Sq("d1"), Sq("h5")>>,
      <<Sq("b8"), Sq("c6")>>, <<Sq("f1"), Sq("c4")>>, <<Sq("g8"), Sq("f6")>>,
      <<Sq("h5"), Sq("f7")>>>>

\* what the n-th call of the line returns, and the game it leaves
ScholarMove(g, n) == move(g, ScholarLine[n][1], ScholarLine[n][2], EMPTY)
ScholarCall1 == ScholarMove(setup, 1)
ScholarCall2 == ScholarMove(ScholarCall1.game, 2)
ScholarCall3 == ScholarMove(ScholarCall2.game, 3)
ScholarCall4 == ScholarMove(ScholarCall3.game, 4)
ScholarCall5 == ScholarMove(ScholarCall4.game, 5)
ScholarCall6 == ScholarMove(ScholarCall5.game, 6)
ScholarCall7 == ScholarMove(ScholarCall6.game, 7)

ScholarResults ==
    <<ScholarCall1.result, ScholarCall2.result, ScholarCall3.result,
      ScholarCall4.result, ScholarCall5.result, ScholarCall6.result,
      ScholarCall7.result>>
ScholarBeforeMate == ScholarCall6.game
ScholarMate == ScholarCall7.game

(***************************************************************************)
(* Properties.                                                             *)
(***************************************************************************)

\* C1: a call is_legal_move does not accept returns ILLEGAL and leaves every
\* field of the position as it was; a call that returns ILLEGAL is one
\* is_legal_move did not accept (so repeating it is rejected again, on the
\* same position).
C1_RejectedUnchanged ==
    /\ why \notin {"legal", "none"} => (result = ILLEGAL /\ Game = before)
    /\ result = ILLEGAL => (why \notin {"legal", "none"} /\ Game = before)

\* two calls, both rejected, on a position still as it was created
C1_Witness ==
    result = ILLEGAL /\ calls = 2 /\ Game = fen_to_game(fen_text).game

\* C2 (as claimed): after an accepted move the king of the side that moved
\* is not attacked; a move rejected for moving into check changes nothing.
\* (It holds along the book; it fails when castling brings the piece on the
\* corner, the black king, next to the white king.)
C2_MoverKingSafe ==
    /\ Accepted => ~KingAttacked(board, before.side_to_move)
    /\ why = "Can't move into check" => (result = ILLEGAL /\ Game = before)

\* a call was rejected only because it would leave the mover in check
C2_Witness ==
    /\ result = ILLEGAL /\ why = "Can't move into check"
    /\ ~KingAttacked(board, side_to_move)

\* C3 (as claimed): an accepted move that leaves the side to move without a
\* legal move returns CHECKMATE if its king is attacked and DRAW otherwise.
C3_MateOrStalemate ==
    (Accepted /\ ~can_make_any_move(Game)) =>
        result = (IF KingAttacked(board, side_to_move) THEN CHECKMATE ELSE DRAW)

\* C4: an accepted move that leaves the side to move in check without a
\* legal move, with no third repetition and with enough material, returns
\* CHECKMATE, also at halfmove_clock 100; the scholar's mate is accepted
\* move by move and its last call returns CHECKMATE.  (The results of the
\* line do not depend on the state: they are evaluated in the initial
\* states only.)
C4_Checkmate ==
    /\ (Accepted /\ Mated /\ Occurrences # 3 /\ enough_material(Game))
           => result = CHECKMATE
    /\ calls = 0 =>
           ScholarResults =
               <<DEFAULT, DEFAULT, DEFAULT, DEFAULT, DEFAULT, DEFAULT, CHECKMATE>>
    /\ (calls = 7 /\ last.from = Sq("h5") /\ last.to = Sq("f7")
            /\ before = ScholarBeforeMate)
           => result = CHECKMATE

\* the seventh call of the scholar's mate has returned CHECKMATE
C4_Witness ==
    /\ calls = 7 /\ last.from = Sq("h5") /\ last.to = Sq("f7")
    /\ result = CHECKMATE
    /\ before = ScholarBeforeMate /\ Game = ScholarMate

\* C5 (as claimed): after an accepted diagonal pawn move onto an empty
\* square, the square on the destination's file and the origin's rank is
\* empty.
C5_EnPassantRemoves ==
    (Accepted /\ TypeOf(MovedPiece) = PAWN /\ last.from[1] # last.to[1]
        /\ CapturedPiece = EMPTY)
        => board[last.to[1]][last.from[2]] = EMPTY

\* C6 (as claimed): a two-file king step is accepted only if neither the
\* king's square nor the square it passes over was attacked.
C6_CastlingNotThroughCheck ==
    (Accepted /\ TypeOf(MovedPiece) = KING /\ abs(last.to[1] - last.from[1]) = 2)
        => LET passed == <<(last.from[1] + last.to[1]) \div 2, last.from[2]>>
               opp == Opposite(before.side_to_move)
           IN  /\ ~AttackedBy(before.board, last.from, opp)
               /\ ~AttackedBy(before.board, passed, opp)

\* C7: no call, accepted or rejected, gives back a castling right.
C7_RightsNeverRestored ==
    /\ white_castling_avail \subseteq before.white_castling_avail
    /\ black_castling_avail \subseteq before.black_castling_avail

\* an accepted move has cleared a castling right
C7_Witness ==
    /\ Accepted
    /\ \/ white_castling_avail # before.white_castling_avail
       \/ black_castling_avail # before.black_castling_avail

\* the clock an accepted move leaves
ClockRule ==
    halfmove_clock =
        (IF TypeOf(MovedPiece) = PAWN \/ CapturedPiece # EMPTY
         THEN 0 ELSE before.halfmove_clock + 1)

\* C8 (amended): an accepted move adds one to halfmove_clock, or makes it 0
\* if a pawn moved or the destination was occupied; the move that brings it
\* to 100 returns DRAW, unless it mates (check, no legal move, enough
\* material, no third repetition), and then it returns CHECKMATE.
C8_ClockAndFiftyMoves ==
    Accepted =>
        /\ ClockRule
        /\ halfmove_clock = 100 =>
              result = (IF Mated /\ enough_material(Game) /\ Occurrences # 3
                        THEN CHECKMATE ELSE DRAW)

\* C8 (as claimed): the move that brings the clock to 100 returns DRAW.
C8_FiftyMovesAlwaysDraw ==
    Accepted => (ClockRule /\ (halfmove_clock = 100 => result = DRAW))

\* a move brought the clock to 100, left the opponent a legal move, and
\* returned DRAW
C8_Witness ==
    /\ Accepted /\ halfmove_clock = 100 /\ before.halfmove_clock = 99
    /\ can_make_any_move(Game) /\ result = DRAW

\* C9: the accepted move after which the fingerprint of the position occurs
\* three times in the history of the run returns DRAW; from the setup, the
\* knights stepping out and back twice bring the setup back a third time.
C9_ThreefoldDraw ==
    /\ (Accepted /\ Occurrences = 3) => result = DRAW
    /\ (Accepted /\ board = setup.board /\ halfmove_clock = 8) => result = DRAW

\* the setup has come back for the third time, eight moves into the run
C9_Witness ==
    /\ Accepted /\ Occurrences = 3
    /\ board = setup.board /\ halfmove_clock = 8 /\ result = DRAW

\* the pieces other than kings
NonKings(b) == {sq \in Squares : TypeOf(b[sq[1]][sq[2]]) \notin {EMPTY, KING}}
Holding(b, piece) == {sq \in Squares : b[sq[1]][sq[2]] = piece}

\* the material rule as the specification words it
MaterialRule(b) ==
    \/ \E sq \in NonKings(b) : TypeOf(b[sq[1]][sq[2]]) \in {PAWN, ROOK, QUEEN}
    \/ \E color \in Colors :
          \/ Cardinality(Holding(b, color + BISHOP)) >= 2
          \/ /\ Cardinality(Holding(b, color + BISHOP)) = 1
             /\ Holding(b, color + KNIGHT) # {}

\* king against king, or king and one knight or one bishop against king
BareOrOneMinor(b) ==
    /\ Cardinality(NonKings(b)) <= 1
    /\ \A sq \in NonKings(b) : TypeOf(b[sq[1]][sq[2]]) \in {KNIGHT, BISHOP}

\* king and two bishops against king
TwoBishops(b) ==
    /\ Cardinality(NonKings(b)) = 2
    /\ \E color \in Colors : NonKings(b) = Holding(b, color + BISHOP)

\* C10: enough_material is the material rule; an accepted move that leaves
\* bare kings or one minor piece returns DRAW; king and two bishops against
\* king is enough material, and is drawn only for another reason.
C10_Material ==
    /\ enough_material(Game) <=> MaterialRule(board)
    /\ (Accepted /\ BareOrOneMinor(board)) => result = DRAW
    /\ (Accepted /\ TwoBishops(board)) =>
          /\ enough_material(Game)
          /\ result = DRAW =>
                (Occurrences = 3 \/ ~can_make_any_move(Game) \/ halfmove_clock = 100)

\* a capture has left king and knight against king, and returned DRAW
C10_Witness ==
    /\ Accepted /\ CapturedPiece # EMPTY /\ result = DRAW
    /\ Cardinality(NonKings(board)) = 1
    /\ \A sq \in NonKings(board) : TypeOf(board[sq[1]][sq[2]]) = KNIGHT

\* the rank a pawn of the colour promotes on
FarRank(color) == IF color = WHITE THEN 7 ELSE 0

\* C11: a pawn move of the side to move onto its farthest rank is accepted
\* only with a promotion naming a knight, bishop, rook or queen, and then
\* the destination holds that piece type in the mover's colour; any other
\* move is accepted only with promotion EMPTY.
C11_Promotion ==
    /\ Accepted =>
          IF TypeOf(MovedPiece) = PAWN
                /\ last.to[2] = FarRank(before.side_to_move)
          THEN /\ TypeOf(last.promotion) \in {KNIGHT, BISHOP, ROOK, QUEEN}
               /\ board[last.to[1]][last.to[2]] =
                      before.side_to_move + TypeOf(last.promotion)
          ELSE last.promotion = EMPTY
    /\ why \in {"Promotion not specified", "Can't promote"} => result = ILLEGAL

\* a black pawn has promoted to a queen, named with the other colour's bit
C11_Witness ==
    /\ Accepted /\ TypeOf(MovedPiece) = PAWN /\ before.side_to_move = BLACK
    /\ last.to[2] = 0 /\ last.promotion = WHITE + QUEEN
    /\ board[last.to[1]][last.to[2]] = BLACK + QUEEN

\* C12 (as claimed): fen_to_game of the standard initial notation returns a
\* game equal to the setup in board, side to move, castling availability,
\* en passant file (none, -1) and halfmove clock.
C12_InitialNotationIsSetup ==
    (fen_text = InitialFen /\ loaded # "none") =>
        /\ loaded = "game"
        /\ board = setup.board
        /\ side_to_move = setup.side_to_move
        /\ white_castling_avail = setup.white_castling_avail
        /\ black_castling_avail = setup.black_castling_avail
        /\ en_passant_file = setup.en_passant_file
        /\ halfmove_clock = setup.halfmove_clock

\* C13 (as claimed): in a game from the setup the board always holds
\* exactly one white king and exactly one black king.
C13_OneKingEach ==
    /\ Cardinality(KingSquares(Game, WHITE)) = 1
    /\ Cardinality(KingSquares(Game, BLACK)) = 1

\* C14 (as claimed): halfmove_clock is always in 0..100, and so is every
\* index of position_history written.
C14_ClockInRange ==
    /\ halfmove_clock \in 0..100
    /\ DOMAIN position_history \subseteq 0..100

\* C18 (as claimed): after an accepted two-file king step the square the
\* king passed over holds a rook of the mover's colour and the corner on
\* that side is empty.
C18_CastlingRelocatesRook ==
    (Accepted /\ TypeOf(MovedPiece) = KING
        /\ abs(last.to[1] - last.from[1]) = 2)
        => /\ board[(last.from[1] + last.to[1]) \div 2][last.from[2]] =
                  before.side_to_move + ROOK
           /\ board[IF last.to[1] > last.from[1] THEN 7 ELSE 0][last.from[2]] =
                  EMPTY

\* C15: after an accepted move the other side is to move, and
\* en_passant_file is the origin file of a pawn that advanced two ranks and
\* -1 after any other move; e2e4 from the setup returns DEFAULT and leaves
\* en_passant_file 4, halfmove_clock 0 and Black to move.
C15_SideAndEnPassant ==
    /\ Accepted =>
          /\ side_to_move = Opposite(before.side_to_move)
          /\ en_passant_file =
                (IF TypeOf(MovedPiece) = PAWN
                      /\ abs(last.to[2] - last.from[2]) = 2
                 THEN last.from[1] ELSE -1)
    /\ (calls = 1 /\ fen_text = "" /\ last.from = Sq("e2") /\ last.to = Sq("e4"))
          => /\ result = DEFAULT /\ en_passant_file = 4
             /\ halfmove_clock = 0 /\ side_to_move = BLACK

\* the call after e2e4 was accepted and has cleared the en passant file
C15_Witness ==
    /\ calls = 2 /\ fen_text = "" /\ Accepted
    /\ before.en_passant_file = 4 /\ before.side_to_move = BLACK
    /\ before.board[4][3] = WHITE + PAWN /\ before.halfmove_clock = 0
    /\ en_passant_file = -1

\* the pawns of the side to move that stand beside the en passant file on
\* the rank they capture from
EnPassantCapturers ==
    {sq \in Squares :
        /\ en_passant_file \in Files
        /\ sq[2] = (IF side_to_move = WHITE THEN 4 ELSE 3)
        /\ abs(sq[1] - en_passant_file) = 1
        /\ board[sq[1]][sq[2]] = side_to_move + PAWN}

\* C16 (as claimed): the fingerprint holds the en passant entry of a file
\* exactly when that file is the en passant file and a pawn of the side to
\* move can capture there, whatever the file of that pawn.
C16_HashEnPassant ==
    \A file \in Files :
        en_passant_hash(file) \in hash(Game)
            <=> (en_passant_file = file /\ EnPassantCapturers # {})

(***************************************************************************)
(* The notation as the specification describes it, read off the text       *)
(* independently of fen_to_game: fields separated by single spaces, the    *)
(* placement a list of ranks separated by "/".                             *)
(***************************************************************************)
RECURSIVE SplitFrom(_, _, _, _)
SplitFrom(str, separator, i, current) ==
    IF i >= Len(str) THEN <<current>>
    ELSE IF char_at(str, i) = separator
         THEN <<current>> \o SplitFrom(str, separator, i + 1, "")
    ELSE SplitFrom(str, separator, i + 1, current \o char_at(str, i))

FenFields == SplitFrom(fen_text, " ", 0, "")
FenField(n) == IF n <= Len(FenFields) THEN FenFields[n] ELSE ""

\* the files a rank of the placement fills: one per letter, n per digit n
RECURSIVE RankWidth(_, _)
RankWidth(rank, i) ==
    IF i >= Len(rank) THEN 0
    ELSE (IF char_at(rank, i) \in DOMAIN DigitRun
          THEN DigitRun[char_at(rank, i)] ELSE 1) + RankWidth(rank, i + 1)

PlacementRanks == SplitFrom(FenField(1), "/", 0, "")
RankOverflows == \E n \in DOMAIN PlacementRanks : RankWidth(PlacementRanks[n], 0) > 8
TooManyRanks == Len(PlacementRanks) > 8

\* the field has a character outside the alphabet
Unrecognized(field, alphabet) ==
    \E i \in 0..(Len(field) - 1) : char_at(field, i) \notin alphabet

\* the decimal numeral of n
RECURSIVE Numeral(_)
Numeral(n) ==
    LET digit == <<"0", "1", "2", "3", "4", "5", "6", "7", "8", "9">>
    IN  IF n < 10 THEN digit[n + 1]
        ELSE Numeral(n \div 10) \o digit[(n % 10) + 1]

ClockMissingOrOutOfRange == \A n \in 0..100 : FenField(5) # Numeral(n)

InvalidNotation ==
    \/ RankOverflows
    \/ TooManyRanks
    \/ Unrecognized(FenField(1), DOMAIN PieceLetter \cup DOMAIN DigitRun \cup {"/"})
    \/ FenField(2) \notin {"w", "b"}
    \/ Unrecognized(FenField(3), {"K", "Q", "k", "q", "-"})
    \/ Unrecognized(FenField(4), DOMAIN FileLetter \cup DOMAIN DigitRun \cup {"-"})
    \/ ClockMissingOrOutOfRange

\* C17 (as claimed): fen_to_game returns NULL for a text whose placement
\* overflows a rank (also by a final digit run) or has more than 8 ranks,
\* whose fields hold an unrecognized character, whose side is not w or b,
\* or whose halfmove clock is missing or outside 0..100.
C17_InvalidNotationIsNull ==
    (loaded # "none" /\ InvalidNotation) => loaded = "NULL"

\* the rights a move from the origin takes from White and from Black
ClearedByOrigin(origin) ==
    CASE origin = <<0, 0>> -> [white |-> {QUEEN}, black |-> {}]
      [] origin = <<4, 0>> -> [white |-> {KING, QUEEN}, black |-> {}]
      [] origin = <<7, 0>> -> [white |-> {KING}, black |-> {}]
      [] origin = <<0, 7>> -> [white |-> {}, black |-> {QUEEN}]
      [] origin = <<4, 7>> -> [white |-> {}, black |-> {KING, QUEEN}]
      [] origin = <<7, 7>> -> [white |-> {}, black |-> {KING}]
      [] OTHER -> [white |-> {}, black |-> {}]

\* C19: an accepted move clears the castling rights of its origin square
\* (a1, e1, h1, a8, e8, h8) and changes no other right, whatever moves and
\* whatever is captured.
C19_RightsByOrigin ==
    Accepted =>
        /\ white_castling_avail =
              before.white_castling_avail \ ClearedByOrigin(last.from).white
        /\ black_castling_avail =
              before.black_castling_avail \ ClearedByOrigin(last.from).black

\* the rook on a8 has been captured on its corner, and Black still holds
\* the queenside right
C19_Witness ==
    /\ Accepted /\ last.to = <<0, 7>> /\ CapturedPiece = BLACK + ROOK
    /\ QUEEN \in black_castling_avail

\* C20 (as claimed): the history entries move reads when it counts
\* repetitions, those at 0..halfmove_clock, are the fingerprints of the
\* positions of the current run: the entry at k is the fingerprint of the
\* position that occurred at halfmove_clock k since the clock last became 0;
\* none is an entry never written.
C20_HistoryIsTheRun ==
    Accepted =>
        \A k \in 0..halfmove_clock :
            /\ k \in DOMAIN position_history
            /\ k \in DOMAIN run
            /\ position_history[k] = run[k]


(***************************************************************************)
(* The game over: games from endings a move away from mate or stalemate,   *)
(* every input tried at every call, and the calls going on after the end.  *)
(***************************************************************************)
\* Qg7, Qh7 and Qe8 mate while the pawn on a2 has a way to a1; after Qf7 the
\* king cannot move and the pawn's promotion is Black's only move
PawnEndingFen == "7k/4Q3/6K1/8/8/8/p7/8 w - - 10 1"

\* Rb1 stalemates: the pawn on g2 has a way to g1 and is pinned by the rook
\* on a2
PinnedPawnEndingFen == "1R6/8/8/8/6K1/8/R5pk/8 w - - 10 1"

OverFens == {QueenEndingFen, PawnEndingFen, PinnedPawnEndingFen}

\* the bound on the number of calls explored from these endings: the first
\* call, and the calls after the end
MaxOverCalls == 3

InitOver == \E text \in OverFens : fen_text = text /\ Start(fen_to_game(text).game)

NextOver ==
    /\ calls < MaxOverCalls
    /\ calls = 0 \/ over
    /\ \E from \in InputSquares :
          \E to \in Destinations(from) :
              \E promotion \in PromotionsFor(from, to) :
                  Call(from, to, promotion)

SpecOver == InitOver /\ [][NextOver]_vars

\* a pawn of the side to move has a way to its last rank
PawnCanReachLastRank ==
    \E from \in Squares : \E to \in Squares :
        /\ HasWay(from, to)
        /\ TypeOf(board[from[1]][from[2]]) = PAWN
        /\ to[2] = (IF side_to_move = WHITE THEN 7 ELSE 0)

\* C21: once a call has returned CHECKMATE, or DRAW with no legal move for
\* the side to move, every later call, whatever its from, to and promotion,
\* returns ILLEGAL and leaves the position as it was.
C21_GameOver == [][over => (result' = ILLEGAL /\ position' = position)]_vars

\* Two calls have been made after a stalemate in which a pawn has a way to its
\* last rank, and the last of them was rejected only for leaving the king
\* attacked.
C21_Witness ==
    /\ over
    /\ calls = MaxOverCalls
    /\ result = ILLEGAL
    /\ why = "Can't move into check"
    /\ ~KingAttacked(board, side_to_move)
    /\ PawnCanReachLastRank

====
